---- MODULE Spec2Model ----
(***************************************************************************)
(* The e-commerce dashboard script lesson7_files/app.py: the date window   *)
(* handling, the two sales datasets, the KPI and trend arithmetic and the  *)
(* grouped series of main(), with calculate_trend_percentage.              *)
(*                                                                         *)
(* Representation.                                                         *)
(*  - A nullable value (NaN/None/NaT in a column) is a sequence of length  *)
(*    at most one: <<>> is null, <<v>> is the value v.                     *)
(*  - A float is a reduced fraction <<n, d>> with d > 0; NaN is <<0, 0>>   *)
(*    and the outcome of dividing by zero is <<1, 0>>.                     *)
(*  - A date is [y, m, d]; a timestamp adds the hour h.                    *)
(*  - Category names and customer states are numbers standing for the     *)
(*    names in their alphabetical order (pandas sorts group keys).         *)
(***************************************************************************)
EXTENDS Integers, Sequences, FiniteSets, TLC

VARIABLES loader, date_range, start_date, end_date, prev_window,
          current_data, previous_data, kpi, charts, delivery, avg_review,
          stars, raised, call_args, call_ret

vars == <<loader, date_range, start_date, end_date, prev_window,
          current_data, previous_data, kpi, charts, delivery, avg_review,
          stars, raised, call_args, call_ret>>

\* ------------------------------------------------------------------ bounds

MaxPrice == 2
MaxNum == 4
MaxDen == 2
MaxDays == 9
MaxRows == 12
MaxCats == 11

\* ------------------------------------------------------------ nullables

None == <<>>

Some(v) == <<v>>

IsNull(o) == Len(o) = 0

\* --------------------------------------------------------------- floats

Abs(i) == IF i < 0 THEN -i ELSE i

RECURSIVE Gcd(_, _)
Gcd(a, b) == IF b = 0 THEN a ELSE Gcd(b, a % b)

NaN == <<0, 0>>

DivByZero == <<1, 0>>

IsNumber(x) == x[2] > 0

Frac(n, d) ==
    LET s == IF d < 0 THEN -1 ELSE 1
        g == Gcd(Abs(n), Abs(d))
    IN  <<(s * n) \div g, (s * d) \div g>>

FromInt(i) == <<i, 1>>

FSub(a, b) ==
    IF ~IsNumber(a) THEN a
    ELSE IF ~IsNumber(b) THEN b
    ELSE Frac(a[1] * b[2] - b[1] * a[2], a[2] * b[2])

FMul(a, b) ==
    IF ~IsNumber(a) THEN a
    ELSE IF ~IsNumber(b) THEN b
    ELSE Frac(a[1] * b[1], a[2] * b[2])

FDiv(a, b) ==
    IF ~IsNumber(a) THEN a
    ELSE IF ~IsNumber(b) THEN b
    ELSE IF b[1] = 0 THEN DivByZero
    ELSE Frac(a[1] * b[2], a[2] * b[1])

\* ---------------------------------------------------------------- dates

IsLeap(y) == (y % 4 = 0 /\ y % 100 # 0) \/ y % 400 = 0

DaysInMonth(y, m) ==
    IF m = 2 THEN (IF IsLeap(y) THEN 29 ELSE 28)
    ELSE IF m \in {4, 6, 9, 11} THEN 30 ELSE 31

\* datetime.date(y, m, d): the date, or null where the constructor raises
\* ValueError (no such calendar day).
date(y, m, d) ==
    IF y >= 1 /\ m \in 1..12 /\ d >= 1 /\ d <= DaysInMonth(y, m)
    THEN Some([y |-> y, m |-> m, d |-> d])
    ELSE None

DateKey(dt) == dt.y * 10000 + dt.m * 100 + dt.d

DateLE(a, b) == DateKey(a) <= DateKey(b)

\* Series.dt.date: a timestamp's calendar day, its time of day dropped.
DtDate(ts) == [y |-> ts.y, m |-> ts.m, d |-> ts.d]

\* Series.dt.to_period('M')
ToPeriod(ts) == <<ts.y, ts.m>>

PeriodKey(p) == p[1] * 12 + p[2]

\* ----------------------------------------------------- the loaded tables

Years == {2019, 2020}

MonthDays == {<<1, 31>>, <<2, 26>>, <<2, 29>>, <<3, 4>>}

Dates ==
    {[y |-> y, m |-> md[1], d |-> md[2]] :
        <<y, md>> \in {yd \in Years \X MonthDays : date(yd[1], yd[2][1], yd[2][2]) # None}}

Statuses == {"delivered", "canceled"}

At(dt, h) == [y |-> dt.y, m |-> dt.m, d |-> dt.d, h |-> h]

D(y, m, d) == [y |-> y, m |-> m, d |-> d]

Epoch == CHOOSE y \in Years : \A z \in Years : y <= z

RECURSIVE DaysBeforeMonth(_, _)
DaysBeforeMonth(y, m) ==
    IF m <= 1 THEN 0 ELSE DaysInMonth(y, m - 1) + DaysBeforeMonth(y, m - 1)

RECURSIVE DaysBeforeYear(_)
DaysBeforeYear(y) ==
    IF y <= Epoch THEN 0
    ELSE (IF IsLeap(y - 1) THEN 366 ELSE 365) + DaysBeforeYear(y - 1)

HoursSinceEpoch(ts) ==
    (DaysBeforeYear(ts.y) + DaysBeforeMonth(ts.y, ts.m) + ts.d - 1) * 24 + ts.h

\* delivery_days = delivered_timestamp - purchase_timestamp in whole days
\* (Timedelta.days), null when the order has no delivered timestamp.
DeliveryDays(o) ==
    IF IsNull(o.delivered) THEN None
    ELSE Some((HoursSinceEpoch(o.delivered[1]) - HoursSinceEpoch(o.purchase)) \div 24)

Order(id, cust, purchase, status, delivered) ==
    [order_id |-> id, customer_id |-> cust, purchase |-> purchase,
     status |-> status, delivered |-> delivered]

Item(oid, pid, price) == [order_id |-> oid, product_id |-> pid, price |-> price]

\* products 1 and 2 have categories 1 and 2, product 3 has a null category and
\* product 9 is not in the table; customers likewise.
Products ==
    <<[product_id |-> 1, category |-> Some(1)],
      [product_id |-> 2, category |-> Some(2)],
      [product_id |-> 3, category |-> None]>>

Customers ==
    <<[customer_id |-> 1, state |-> Some(1)],
      [customer_id |-> 2, state |-> Some(2)],
      [customer_id |-> 3, state |-> None]>>

\* One review row per scored order: <<>> in scores[i] is an order without one.
Reviews(scores) ==
    LET RECURSIVE Rows(_)
        Rows(i) ==
            IF i > Len(scores) THEN <<>>
            ELSE (IF IsNull(scores[i]) THEN <<>>
                  ELSE <<[order_id |-> i, score |-> scores[i]]>>) \o Rows(i + 1)
    IN  Rows(1)

RawTableSet(orders, items, scores) ==
    [orders |-> orders, order_items |-> items, products |-> Products,
     customers |-> Customers, reviews |-> Reviews(scores)]

Range(s) == {s[i] : i \in DOMAIN s}

\* ---------------------------------------------------- DeliveryCategorizer

CategorizeLoose(delivery_days) ==
    IF IsNull(delivery_days) THEN "Unknown"
    ELSE IF delivery_days[1] < 3 THEN "1-3 days"
    ELSE IF delivery_days[1] <= 7 THEN "4-7 days"
    ELSE "8+ days"

categorize_delivery_speed(delivery_days) ==
    IF IsNull(delivery_days) THEN "Unknown"
    ELSE IF delivery_days[1] <= 3 THEN "1-3 days"
    ELSE IF delivery_days[1] <= 7 THEN "4-7 days"
    ELSE "8+ days"

\* ------------------------------------------------------ SalesFactBuilder

Lookup(table, key, id, col) ==
    IF \E i \in DOMAIN table : table[i][key] = id
    THEN table[CHOOSE i \in DOMAIN table : table[i][key] = id][col]
    ELSE None

SalesFactRow(L, it, o) ==
    [order_id |-> o.order_id,
     order_purchase_timestamp |-> o.purchase,
     order_status |-> o.status,
     price |-> it.price,
     product_category_name |-> Lookup(L.products, "product_id", it.product_id, "category"),
     customer_state |-> Lookup(L.customers, "customer_id", o.customer_id, "state"),
     delivery_days |-> DeliveryDays(o),
     review_score |-> Lookup(L.reviews, "order_id", o.order_id, "score")]

\* order_items inner-joined to orders: an item without its order gives no row.
RECURSIVE JoinOrders(_, _)
JoinOrders(L, i) ==
    IF i > Len(L.order_items) THEN <<>>
    ELSE LET it == L.order_items[i]
             os == SelectSeq(L.orders, LAMBDA o : o.order_id = it.order_id)
         IN  [k \in 1..Len(os) |-> SalesFactRow(L, it, os[k])] \o JoinOrders(L, i + 1)

BuildAnyStatus(L, year_filter, status_filter) ==
    SelectSeq(JoinOrders(L, 1),
              LAMBDA r : r.order_purchase_timestamp.y = year_filter)

create_sales_dataset(L, year_filter, status_filter) ==
    SelectSeq(JoinOrders(L, 1),
              LAMBDA r : /\ r.order_status = status_filter
                         /\ r.order_purchase_timestamp.y = year_filter)

\* ---------------------------------------------------- column arithmetic

RECURSIVE SumPrice(_)
SumPrice(rows) ==
    IF rows = <<>> THEN 0 ELSE rows[1].price + SumPrice(Tail(rows))

\* Series.nunique()
NUnique(rows) == Cardinality({rows[i].order_id : i \in DOMAIN rows})

\* Series.mean(): nulls are skipped, and the mean of no value is NaN.
RECURSIVE SumValues(_)
SumValues(col) ==
    IF col = <<>> THEN 0
    ELSE (IF IsNull(col[1]) THEN 0 ELSE col[1][1]) + SumValues(Tail(col))

Mean(col) ==
    LET n == Cardinality({i \in DOMAIN col : ~IsNull(col[i])})
    IN  IF n = 0 THEN NaN ELSE Frac(SumValues(col), n)

Column(rows, name) == [i \in DOMAIN rows |-> rows[i][name]]

\* round() to the nearest integer, halves to the even one.
Round(x) ==
    LET f == x[1] \div x[2]
        r == x[1] % x[2]
    IN  IF 2 * r < x[2] THEN f
        ELSE IF 2 * r > x[2] THEN f + 1
        ELSE IF f % 2 = 0 THEN f ELSE f + 1

bucket_order == <<"1-3 days", "4-7 days", "8+ days", "Unknown">>

BucketIndex(b) == CHOOSE i \in DOMAIN bucket_order : bucket_order[i] = b

\* The group key of a row: a column's value, or the month of the purchase.
GroupKey(r, by) ==
    IF by = "period" THEN Some(ToPeriod(r.order_purchase_timestamp)) ELSE r[by]

\* The order of group keys: periods by time, buckets by bucket_order.
KeyOrder(k, by) ==
    IF by = "period" THEN PeriodKey(k)
    ELSE IF by = "delivery_bucket" THEN BucketIndex(k)
    ELSE k

\* The keys in S in ascending order.
SortedKeys(S, by) ==
    [n \in 1..Cardinality(S) |->
        CHOOSE x \in S : Cardinality({y \in S : KeyOrder(y, by) < KeyOrder(x, by)}) = n - 1]

\* df.groupby(by)['price'].sum(): one <<key, sum>> per key present, rows with
\* a null key dropped, keys in ascending order.
GroupSum(rows, by) ==
    LET keys == {GroupKey(rows[i], by)[1] :
                    i \in {j \in DOMAIN rows : ~IsNull(GroupKey(rows[j], by))}}
        ks == SortedKeys(keys, by)
    IN  [n \in 1..Len(ks) |->
            <<ks[n], SumPrice(SelectSeq(rows, LAMBDA r : GroupKey(r, by) = Some(ks[n])))>>]

\* Series.sort_values(ascending=False): by value, largest first. The default
\* sort is not stable, so equal values come in an order the library picks:
\* tie is that pick, "first" keeping the key order and "last" reversing it.
RECURSIVE SortValuesDesc(_, _)
SortValuesDesc(s, tie) ==
    IF s = <<>> THEN <<>>
    ELSE LET top == {i \in DOMAIN s : \A j \in DOMAIN s : s[j][2] <= s[i][2]}
             i == IF tie = "first"
                  THEN CHOOSE a \in top : \A b \in top : a <= b
                  ELSE CHOOSE a \in top : \A b \in top : a >= b
         IN  <<s[i]>> \o SortValuesDesc(SubSeq(s, 1, i - 1) \o SubSeq(s, i + 1, Len(s)), tie)

HeadN(s, n) == SubSeq(s, 1, IF Len(s) < n THEN Len(s) ELSE n)

TieOrders == {"first", "last"}

\* ----------------------------------------------------------------- app.py

\* get_date_range(loader)
get_date_range(L) ==
    LET ds == {DtDate(L.orders[i].purchase) : i \in DOMAIN L.orders}
    IN  [min_date |-> CHOOSE a \in ds : \A b \in ds : DateLE(a, b),
         max_date |-> CHOOSE a \in ds : \A b \in ds : DateLE(b, a)]

TrendUnguarded(current_value, previous_value) ==
    FMul(FDiv(FSub(current_value, previous_value), previous_value), FromInt(100))

calculate_trend_percentage(current_value, previous_value) ==
    IF previous_value = FromInt(0) THEN FromInt(0)
    ELSE FMul(FDiv(FSub(current_value, previous_value), previous_value), FromInt(100))

\* the date window applied to a sales dataset (lines 179-182 and 188-191)
DateFilter(data, lo, hi) ==
    SelectSeq(data, LAMBDA r : /\ DateLE(lo, DtDate(r.order_purchase_timestamp))
                               /\ DateLE(DtDate(r.order_purchase_timestamp), hi))

SelectedStart(dr, L) ==
    IF dr.is_tuple /\ Len(dr.v) = 2 THEN dr.v[1]
    ELSE IF ~dr.is_tuple THEN dr.v[1] ELSE get_date_range(L).min_date

SelectedEnd(dr, L) ==
    IF dr.is_tuple /\ Len(dr.v) = 2 THEN dr.v[2]
    ELSE IF ~dr.is_tuple THEN dr.v[1] ELSE get_date_range(L).min_date

EndYear(sd, ed) == ed.y

CurrentYear(sd, ed) == sd.y

\* prev_start and prev_end: null where date() raises ValueError
PreviousWindow(sd, ed) ==
    LET ps == date(CurrentYear(sd, ed) - 1, sd.m, sd.d)
        pe == date(CurrentYear(sd, ed) - 1, ed.m, ed.d)
    IN  IF IsNull(ps) \/ IsNull(pe) THEN None
        ELSE Some([prev_start |-> ps[1], prev_end |-> pe[1]])

AovUnguarded(revenue, orders) == FDiv(revenue, FromInt(orders))

AverageOrderValue(revenue, orders) ==
    IF orders > 0 THEN FDiv(revenue, FromInt(orders)) ELSE FromInt(0)

Kpis(cur, prev) ==
    LET current_revenue == FromInt(SumPrice(cur))
        current_orders == NUnique(cur)
        current_aov == AverageOrderValue(current_revenue, current_orders)
        previous_revenue == IF Len(prev) > 0 THEN FromInt(SumPrice(prev)) ELSE FromInt(0)
        previous_orders == IF Len(prev) > 0 THEN NUnique(prev) ELSE 0
        previous_aov == AverageOrderValue(previous_revenue, previous_orders)
    IN  [current_revenue |-> current_revenue,
         current_orders |-> current_orders,
         current_aov |-> current_aov,
         previous_revenue |-> previous_revenue,
         previous_orders |-> previous_orders,
         previous_aov |-> previous_aov,
         revenue_trend |-> calculate_trend_percentage(current_revenue, previous_revenue),
         aov_trend |-> calculate_trend_percentage(current_aov, previous_aov),
         orders_trend |-> calculate_trend_percentage(FromInt(current_orders),
                                                     FromInt(previous_orders))]

\* as if grouped by dt.to_period('Y')
MonthlyByYear(data) ==
    GroupSum([i \in DOMAIN data |->
                [data[i] EXCEPT !.order_purchase_timestamp.m = 1]], "period")

\* groupby(order_purchase_timestamp.dt.to_period('M'))['price'].sum()
MonthlyRevenue(data) == GroupSum(data, "period")

TopN == 10

CategoryNoSort(data, tie) == HeadN(GroupSum(data, "product_category_name"), TopN)

\* groupby('product_category_name')['price'].sum()
\*   .sort_values(ascending=False).head(10)
CategoryRevenue(data, tie) ==
    HeadN(SortValuesDesc(GroupSum(data, "product_category_name"), tie), TopN)

StateRevenue(data) == GroupSum(data, "customer_state")

BucketOf(r) == categorize_delivery_speed(r.delivery_days)

\* groupby('delivery_bucket')['review_score'].mean(), then sorted by the
\* categorical order of the buckets: one entry per bucket that has a row.
SatisfactionDelivery(data) ==
    LET present == {BucketOf(data[i]) : i \in DOMAIN data}
        bs == SortedKeys(present, "delivery_bucket")
    IN  [n \in 1..Len(bs) |->
            [delivery_bucket |-> bs[n],
             review_score |->
                Mean(Column(SelectSeq(data, LAMBDA r : BucketOf(r) = bs[n]),
                            "review_score"))]]

Charts(cur, prev, tie) ==
    [current_monthly |-> MonthlyRevenue(cur),
     previous_monthly |-> MonthlyRevenue(prev),
     category_revenue |-> CategoryRevenue(cur, tie),
     state_revenue |-> StateRevenue(cur),
     satisfaction_delivery |-> SatisfactionDelivery(cur)]

DeliveryCard(cur, prev) ==
    LET current_delivery == Mean(Column(cur, "delivery_days"))
        previous_delivery == IF Len(prev) > 0 THEN Mean(Column(prev, "delivery_days"))
                             ELSE current_delivery
    IN  [current_delivery |-> current_delivery,
         previous_delivery |-> previous_delivery,
         delivery_trend |-> calculate_trend_percentage(current_delivery, previous_delivery)]

\* int(round(avg_review)): null where round() raises ValueError on NaN
Stars(avg) == IF IsNumber(avg) THEN Some(Round(avg)) ELSE None

\* One run of main() for the widget value dr: every value the script binds,
\* up to the statement that raises when one does.
MainRun(L, dr, tie) ==
    LET sd == SelectedStart(dr, L)
        ed == SelectedEnd(dr, L)
        cur == DateFilter(create_sales_dataset(L, CurrentYear(sd, ed), "delivered"), sd, ed)
        built == create_sales_dataset(L, CurrentYear(sd, ed) - 1, "delivered")
        pw == PreviousWindow(sd, ed)
        prev == DateFilter(built, pw[1].prev_start, pw[1].prev_end)
        avg == Mean(Column(cur, "review_score"))
        base == [start_date |-> sd, end_date |-> ed, prev_window |-> pw,
                 current_data |-> cur]
    IN  IF IsNull(pw)
        THEN base @@ [previous_data |-> built, kpi |-> None, charts |-> None,
                      delivery |-> None, avg_review |-> None, stars |-> None,
                      raised |-> "ValueError: day is out of range for month"]
        ELSE base @@ [previous_data |-> prev,
                      kpi |-> Some(Kpis(cur, prev)),
                      charts |-> Some(Charts(cur, prev, tie)),
                      delivery |-> Some(DeliveryCard(cur, prev)),
                      avg_review |-> Some(avg),
                      stars |-> Stars(avg),
                      raised |-> IF IsNull(Stars(avg))
                                 THEN "ValueError: cannot convert float NaN to integer"
                                 ELSE "none"]

\* ------------------------------------------------ the loaded data sets

\* Two orders, each on any day of the calendar, the first delivered or
\* canceled and bought late in the evening.
LoadersByDate ==
    {RawTableSet(<<Order(1, 1, At(d1, 23), s1, Some(At(d1, 23))),
                   Order(2, 2, At(d2, 0), "delivered", None)>>,
                 <<Item(1, 1, 1), Item(2, 2, 2)>>,
                 <<Some(5), Some(4)>>) :
        <<d1, d2, s1>> \in Dates \X Dates \X Statuses}

Deliveries == {None, Some(At(D(2020, 2, 29), 0)), Some(At(D(2020, 3, 4), 0))}

Scores == {None, Some(1), Some(4)}

\* Three delivered orders of one year that differ in delivery time and score.
LoadersByDelivery ==
    {RawTableSet(<<Order(1, 1, At(D(2020, 2, 26), 0), "delivered", v[1]),
                   Order(2, 2, At(D(2020, 2, 26), 0), "delivered", v[2]),
                   Order(3, 3, At(D(2020, 1, 31), 0), "delivered", v[3])>>,
                 <<Item(1, 1, 1), Item(2, 2, 1), Item(3, 3, 1)>>,
                 <<v[4], v[5], v[6]>>) :
        v \in Deliveries \X Deliveries \X {None, Some(At(D(2020, 2, 26), 0))}
              \X Scores \X Scores \X {None, Some(5)}}

Items == {Item(o, p, c) : <<o, p, c>> \in {1, 2, 9} \X {1, 2, 3, 9} \X (1..MaxPrice)}

\* An order in each of two years, with items that differ in order, product
\* and price; order 9 and product 9 are in no table.
LoadersByItems ==
    {RawTableSet(<<Order(1, 1, At(D(2020, 1, 31), 0), "delivered",
                         Some(At(D(2020, 2, 26), 0))),
                   Order(2, 3, At(D(2019, 1, 31), 0), "delivered", None)>>,
                 <<i[1], i[2], Item(1, 1, 1)>>,
                 <<Some(5), Some(3)>>) :
        i \in Items \X Items}

Loaders == LoadersByDate \cup LoadersByDelivery \cup LoadersByItems

\* What st.date_input returns: the two picked dates, or the one picked so
\* far, each between min_date and max_date.
DateRanges(L) ==
    LET r == get_date_range(L)
        ds == {dt \in Dates : DateLE(r.min_date, dt) /\ DateLE(dt, r.max_date)}
    IN  {[is_tuple |-> TRUE, v |-> <<a, b>>] : <<a, b>> \in {p \in ds \X ds : DateLE(p[1], p[2])}}
        \cup {[is_tuple |-> TRUE, v |-> <<a>>] : a \in ds}

DefaultRange(L) ==
    [is_tuple |-> TRUE, v |-> <<get_date_range(L).min_date, get_date_range(L).max_date>>]

\* ---------------------------------------------------------- the script

Bound(r) ==
    /\ start_date = r.start_date
    /\ end_date = r.end_date
    /\ prev_window = r.prev_window
    /\ current_data = r.current_data
    /\ previous_data = r.previous_data
    /\ kpi = r.kpi
    /\ charts = r.charts
    /\ delivery = r.delivery
    /\ avg_review = r.avg_review
    /\ stars = r.stars
    /\ raised = r.raised

BoundNext(r) ==
    /\ start_date' = r.start_date
    /\ end_date' = r.end_date
    /\ prev_window' = r.prev_window
    /\ current_data' = r.current_data
    /\ previous_data' = r.previous_data
    /\ kpi' = r.kpi
    /\ charts' = r.charts
    /\ delivery' = r.delivery
    /\ avg_review' = r.avg_review
    /\ stars' = r.stars
    /\ raised' = r.raised

Init ==
    \E L \in Loaders, tie \in TieOrders :
        /\ loader = L
        /\ date_range = DefaultRange(L)
        /\ LET r == MainRun(L, DefaultRange(L), tie) IN Bound(r)
        /\ call_args = [fn |-> "main", args |-> <<>>]
        /\ call_ret = None

\* The script runs again, top to bottom, on each change of the date filter.
Main ==
    \E dr \in DateRanges(loader), tie \in TieOrders :
        /\ date_range' = dr
        /\ LET r == MainRun(loader, dr, tie) IN BoundNext(r)
        /\ UNCHANGED <<loader, call_args, call_ret>>

Next == Main

Spec == Init /\ [][Next]_vars

\* ------------------------------------------- the functions, called alone

\* The script's own variables while a function is exercised by itself.
NoScript(L) ==
    /\ loader = L
    /\ date_range = DefaultRange(L)
    /\ start_date = get_date_range(L).min_date
    /\ end_date = get_date_range(L).max_date
    /\ prev_window = None
    /\ current_data = <<>>
    /\ previous_data = <<>>
    /\ kpi = None
    /\ charts = None
    /\ delivery = None
    /\ avg_review = None
    /\ stars = None
    /\ raised = "none"

ScriptVars == <<loader, date_range, start_date, end_date, prev_window,
                current_data, previous_data, kpi, charts, delivery, avg_review,
                stars, raised>>

OneOrder == RawTableSet(<<Order(1, 1, At(D(2020, 1, 31), 0), "delivered", None)>>,
                        <<Item(1, 1, 1)>>, <<None>>)

Floats ==
    {Frac(n, d) : <<n, d>> \in (-MaxNum..MaxNum) \X (1..MaxDen)}
        \cup {NaN, FromInt(100), FromInt(150)}

InitTrend ==
    /\ NoScript(OneOrder)
    /\ call_args \in {[fn |-> "calculate_trend_percentage", args |-> a] : a \in Floats \X Floats}
    /\ call_ret = None

CallTrend ==
    /\ call_args.fn = "calculate_trend_percentage"
    /\ call_ret = None
    /\ call_ret' = Some(calculate_trend_percentage(call_args.args[1], call_args.args[2]))
    /\ UNCHANGED <<ScriptVars, call_args>>

SpecTrend == InitTrend /\ [][CallTrend]_vars

Durations == {None} \cup {Some(d) : d \in -MaxDays..MaxDays}

InitCategorize ==
    /\ NoScript(OneOrder)
    /\ call_args \in {[fn |-> "categorize_delivery_speed", args |-> a] :
                        a \in Durations \X Durations}
    /\ call_ret = None

CallCategorize ==
    /\ call_args.fn = "categorize_delivery_speed"
    /\ call_ret = None
    /\ call_ret' = Some(<<categorize_delivery_speed(call_args.args[1]),
                          categorize_delivery_speed(call_args.args[2])>>)
    /\ UNCHANGED <<ScriptVars, call_args>>

SpecCategorize == InitCategorize /\ [][CallCategorize]_vars

InitBuild ==
    \E L \in Loaders :
        /\ NoScript(L)
        /\ call_args \in {[fn |-> "create_sales_dataset", args |-> a] :
                            a \in Years \X Statuses}
        /\ call_ret = None

CallBuild ==
    /\ call_args.fn = "create_sales_dataset"
    /\ call_ret = None
    /\ call_ret' = Some(create_sales_dataset(loader, call_args.args[1], call_args.args[2]))
    /\ UNCHANGED <<ScriptVars, call_args>>

SpecBuild == InitBuild /\ [][CallBuild]_vars

\* n rows of one order, the first z without a category and the rest over k
\* categories in turn, priced 1 to 3 in a pattern that a picks.
RankRows(n, k, a, z) ==
    [i \in 1..n |->
        [order_id |-> 1,
         order_purchase_timestamp |-> At(D(2020, 1, 31), 0),
         order_status |-> "delivered",
         price |-> 1 + ((i * a) % 3),
         product_category_name |->
            IF i <= z THEN None ELSE Some(((i - z - 1) % k) + 1),
         customer_state |-> None,
         delivery_days |-> None,
         review_score |-> None]]

InitRank ==
    /\ NoScript(OneOrder)
    /\ call_args \in {[fn |-> "category_revenue", args |-> <<RankRows(n, k, a, z)>>] :
                        <<n, k, a, z>> \in (0..MaxRows) \X (1..MaxCats) \X (0..2) \X (0..2)}
    /\ call_ret = None

CallRank ==
    \E tie \in TieOrders :
        /\ call_args.fn = "category_revenue"
        /\ call_ret = None
        /\ call_ret' = Some(CategoryRevenue(call_args.args[1], tie))
        /\ UNCHANGED <<ScriptVars, call_args>>

SpecRank == InitRank /\ [][CallRank]_vars

\* ================================================================ claims

\* C1: calculate_trend_percentage(current, previous) is 0 whenever previous
\* is 0, whatever current is; otherwise it is (current - previous) /
\* previous * 100 (150 against 100 gives 50, and a NaN operand gives NaN);
\* no pair of inputs ends in a division by zero.
C1_TrendPercentage ==
    call_ret # None =>
        LET c == call_args.args[1]
            p == call_args.args[2]
            r == call_ret[1]
        IN  /\ r # DivByZero
            /\ p = FromInt(0) => r = FromInt(0)
            /\ (IsNumber(c) /\ IsNumber(p) /\ p[1] # 0) =>
                  /\ IsNumber(r)
                  /\ r[1] * c[2] * p[1] = 100 * (c[1] * p[2] - p[1] * c[2]) * r[2]
            /\ (p = NaN \/ (c = NaN /\ p # FromInt(0))) => r = NaN
            /\ (c = FromInt(150) /\ p = FromInt(100)) => r = FromInt(50)

C1_Witness ==
    /\ call_ret = Some(FromInt(0))
    /\ call_args.fn = "calculate_trend_percentage"
    /\ call_args.args[2] = FromInt(0)
    /\ IsNumber(call_args.args[1])
    /\ call_args.args[1][1] > 0

C2_AovOf(data, revenue, orders, aov) ==
    /\ orders = Cardinality({data[i].order_id : i \in DOMAIN data})
    /\ revenue = FromInt(SumPrice(data))
    /\ aov # DivByZero
    /\ orders > 0 => (IsNumber(aov) /\ aov[1] * orders = revenue[1] * aov[2])
    /\ orders = 0 => aov = FromInt(0)

\* C2: in both periods the average order value is the revenue divided by
\* the number of distinct order ids when that number is positive and 0 when
\* it is zero, and is never the outcome of a division by zero.
C2_AverageOrderValue ==
    kpi # None =>
        /\ C2_AovOf(current_data, kpi[1].current_revenue, kpi[1].current_orders,
                    kpi[1].current_aov)
        /\ C2_AovOf(previous_data, kpi[1].previous_revenue, kpi[1].previous_orders,
                    kpi[1].previous_aov)

C2_Witness ==
    /\ kpi # None
    /\ current_data = <<>>
    /\ kpi[1].current_aov = FromInt(0)
    /\ kpi[1].previous_orders > 0
    /\ kpi[1].previous_aov = FromInt(2)

\* C3: when the window holds no fact row (and the comparison window exists),
\* the run of main() raises nothing and completes.
C3_EmptyWindowCompletes ==
    (current_data = <<>> /\ prev_window # None) => raised = "none"

C4_Revenue(rows, c) ==
    SumPrice(SelectSeq(rows, LAMBDA r : r.product_category_name = Some(c)))

\* C4: the category ranking has at most 10 entries, one per category, each
\* with the sum of price over that category's rows, in non-increasing order
\* of revenue; a category left out earns no more than any entry and is left
\* out only when 10 are listed; a row without a category gives no entry.
C4_CategoryRanking ==
    call_ret # None =>
        LET rows == call_args.args[1]
            out == call_ret[1]
            cats == {rows[i].product_category_name[1] :
                        i \in {j \in DOMAIN rows : rows[j].product_category_name # None}}
            listed == {out[i][1] : i \in DOMAIN out}
        IN  /\ Len(out) <= 10
            /\ Cardinality(listed) = Len(out)
            /\ listed \subseteq cats
            /\ \A i \in DOMAIN out : out[i][2] = C4_Revenue(rows, out[i][1])
            /\ \A i \in DOMAIN out : i > 1 => out[i - 1][2] >= out[i][2]
            /\ \A c \in cats \ listed :
                  /\ Len(out) = 10
                  /\ \A i \in DOMAIN out : out[i][2] >= C4_Revenue(rows, c)

C4_Witness ==
    /\ call_ret # None
    /\ call_args.fn = "category_revenue"
    /\ Len(call_ret[1]) = 10
    /\ call_ret[1][1][2] > call_ret[1][10][2]
    /\ \E i \in DOMAIN call_args.args[1] :
          call_args.args[1][i].product_category_name = None
    /\ \E i \in DOMAIN call_args.args[1] :
          /\ call_args.args[1][i].product_category_name # None
          /\ \A j \in DOMAIN call_ret[1] :
                call_ret[1][j][1] # call_args.args[1][i].product_category_name[1]

C5_Scored(b) ==
    SelectSeq(current_data,
              LAMBDA r : categorize_delivery_speed(r.delivery_days) = b
                         /\ r.review_score # None)

\* C5: satisfaction by delivery bucket has one entry per bucket that holds a
\* row with a review score, its score the mean of the bucket's scores, in
\* the order 1-3 days, 4-7 days, 8+ days, Unknown; a bucket whose rows all
\* lack a score has no entry. Stated of the runs that complete.
C5_UnscoredBucketOmitted ==
    (charts # None /\ raised = "none") =>
        LET sat == charts[1].satisfaction_delivery
        IN  /\ {sat[i].delivery_bucket : i \in DOMAIN sat}
                  = {b \in Range(bucket_order) : C5_Scored(b) # <<>>}
            /\ \A i \in DOMAIN sat :
                  /\ IsNumber(sat[i].review_score)
                  /\ sat[i].review_score = Mean(Column(C5_Scored(sat[i].delivery_bucket),
                                                       "review_score"))
            /\ \A i \in DOMAIN sat :
                  i > 1 => BucketIndex(sat[i - 1].delivery_bucket)
                              < BucketIndex(sat[i].delivery_bucket)

C7_BucketOf(d, b) ==
    /\ d = None => b = "Unknown"
    /\ (d # None /\ d[1] <= 3) => b = "1-3 days"
    /\ (d # None /\ 3 < d[1] /\ d[1] <= 7) => b = "4-7 days"
    /\ (d # None /\ d[1] > 7) => b = "8+ days"

C7_Severity(b) == CASE b = "1-3 days" -> 1 [] b = "4-7 days" -> 2
                    [] b = "8+ days" -> 3 [] OTHER -> 4

\* C7: categorize maps null to Unknown, d <= 3 to 1-3 days, 3 < d <= 7 to
\* 4-7 days and d > 7 to 8+ days; so for 0 <= d1 <= d2 the bucket of d1 is
\* not more severe than that of d2.
C7_Categorize ==
    call_ret # None =>
        LET d1 == call_args.args[1]
            d2 == call_args.args[2]
        IN  /\ C7_BucketOf(d1, call_ret[1][1])
            /\ C7_BucketOf(d2, call_ret[1][2])
            /\ (d1 # None /\ d2 # None /\ 0 <= d1[1] /\ d1[1] <= d2[1]) =>
                  C7_Severity(call_ret[1][1]) <= C7_Severity(call_ret[1][2])

C7_Witness ==
    /\ call_ret = Some(<<"1-3 days", "4-7 days">>)
    /\ call_args.fn = "categorize_delivery_speed"
    /\ call_args.args = <<Some(3), Some(4)>>

C8_Series(series, data) ==
    /\ {series[i][1] : i \in DOMAIN series}
          = {<<data[i].order_purchase_timestamp.y, data[i].order_purchase_timestamp.m>> :
                i \in DOMAIN data}
    /\ \A i \in DOMAIN series :
          series[i][2] =
              SumPrice(SelectSeq(data,
                  LAMBDA r : r.order_purchase_timestamp.y = series[i][1][1]
                             /\ r.order_purchase_timestamp.m = series[i][1][2]))
    /\ \A i \in DOMAIN series :
          i > 1 => \/ series[i - 1][1][1] < series[i][1][1]
                   \/ /\ series[i - 1][1][1] = series[i][1][1]
                      /\ series[i - 1][1][2] < series[i][1][2]

RECURSIVE C8_Total(_)
C8_Total(series) == IF series = <<>> THEN 0 ELSE series[1][2] + C8_Total(Tail(series))

\* C8: the monthly series of each period has exactly one entry per calendar
\* month in which a row of the period was purchased, with the sum of price
\* over that month's rows, in chronological order; the current series adds
\* up to the revenue.
C8_MonthlySeries ==
    charts # None =>
        /\ C8_Series(charts[1].current_monthly, current_data)
        /\ C8_Series(charts[1].previous_monthly, previous_data)
        /\ FromInt(C8_Total(charts[1].current_monthly)) = kpi[1].current_revenue

C8_Witness ==
    /\ charts # None
    /\ Len(charts[1].current_monthly) = 2
    /\ charts[1].current_monthly[1][1] = <<2020, 1>>
    /\ charts[1].current_monthly[2][1] = <<2020, 3>>

C9_InWindow(o) ==
    /\ DateKey(start_date) <= o.purchase.y * 10000 + o.purchase.m * 100 + o.purchase.d
    /\ o.purchase.y * 10000 + o.purchase.m * 100 + o.purchase.d <= DateKey(end_date)

C9_Contributes(it) ==
    \E k \in DOMAIN loader.orders :
        /\ loader.orders[k].order_id = it.order_id
        /\ loader.orders[k].status = "delivered"
        /\ loader.orders[k].purchase.y = start_date.y
        /\ C9_InWindow(loader.orders[k])

\* C9: every current-period row is a delivered row purchased within
\* [start_date, end_date] in start_date's year; every previous-period row
\* was purchased within [prev_start, prev_end] in the year before; the
\* current revenue is the price of exactly the items of delivered orders
\* purchased in the window and in start_date's year.
C9_PeriodRows ==
    /\ \A i \in DOMAIN current_data :
          /\ current_data[i].order_status = "delivered"
          /\ current_data[i].order_purchase_timestamp.y = start_date.y
          /\ C9_InWindow([purchase |-> current_data[i].order_purchase_timestamp])
    /\ prev_window # None =>
          \A i \in DOMAIN previous_data :
              LET ts == previous_data[i].order_purchase_timestamp
              IN  /\ ts.y = start_date.y - 1
                  /\ DateKey(prev_window[1].prev_start) <= ts.y * 10000 + ts.m * 100 + ts.d
                  /\ ts.y * 10000 + ts.m * 100 + ts.d <= DateKey(prev_window[1].prev_end)
    /\ kpi # None =>
          kpi[1].current_revenue
              = FromInt(SumPrice(SelectSeq(loader.order_items, C9_Contributes)))

C9_Witness ==
    /\ kpi # None
    /\ current_data # <<>>
    /\ \E k \in DOMAIN loader.orders :
          /\ loader.orders[k].status = "delivered"
          /\ loader.orders[k].purchase.y # start_date.y
          /\ C9_InWindow(loader.orders[k])

\* C10: for every window with start_date <= end_date the comparison window
\* is computed, as the same month and day one year earlier, and is ordered
\* when the window lies within one year.
C10_PreviousWindowComputed ==
    DateKey(start_date) <= DateKey(end_date) =>
        /\ prev_window # None
        /\ prev_window[1].prev_start = D(start_date.y - 1, start_date.m, start_date.d)
        /\ prev_window[1].prev_end = D(start_date.y - 1, end_date.m, end_date.d)
        /\ start_date.y = end_date.y =>
              DateKey(prev_window[1].prev_start) <= DateKey(prev_window[1].prev_end)

====
